---- MODULE Spec2Model ----
(***************************************************************************)
(* Model of the span tracer (src/sweagent/tracer.py), its use by the       *)
(* program entry point (src/sweagent/__main__.py) and the metrics compiler *)
(* (src/traces/evaluate_trace.py).                                         *)
(***************************************************************************)
EXTENDS Integers, Sequences, FiniteSets, TLC

(* ---------------------------------------------------------------- bounds *)
\* Largest reading of the wall clock (perf_counter_ns) the model explores.
MaxWall == 2
\* Largest reading of the process CPU clock (process_time_ns).
MaxCpu == 1
\* Largest depth of the patch stack the model explores.
MaxPatches == 4
\* Largest number of rows of an exported file the metrics compiler reads.
MaxRows == 3

\* The recorders: two threads or tasks, each entering one recorded extent (the
\* second either concurrently with the first or nested in its work).
Rec == {1, 2}

VARIABLES
    wall,       \* perf_counter_ns(): monotonic wall clock
    cpu,        \* process_time_ns(): CPU time of the whole process
    rec,        \* per recorder: position and locals of the recording wrapper
    spans,      \* Tracer._spans
    lock,       \* Tracer._lock: 0 when free, else the recorder holding it
    patches,    \* Tracer._patches
    bind,       \* the attribute tables (__dict__) of the instrumentable owners
    savePc,     \* position of a running Tracer.save
    saveLen,    \* length of the ledger when the running save began
    csvFile,    \* data rows of <run_id>.csv
    jsonFile,   \* objects of <run_id>.json
    lastOp,     \* the registry operation performed last (history)
    undone,     \* how many patch records that operation popped (history)
    rows,       \* evaluate_trace: rows loaded by load_rows
    result,     \* evaluate_trace: what compute_metrics returned
    file,       \* evaluate_trace: the records of the input file read so far
    evalPc,     \* evaluate_trace: position of main
    output      \* evaluate_trace: what main has printed and written

clockVars == <<wall, cpu>>
regVars == <<patches, bind, lastOp, undone>>
saveVars == <<savePc, saveLen, csvFile, jsonFile>>
tracerVars == <<wall, cpu, rec, spans, lock, patches, bind, lastOp, undone, savePc, saveLen, csvFile, jsonFile>>
metricVars == <<rows, result, file, evalPc, output>>
vars == <<wall, cpu, rec, spans, lock, patches, bind, lastOp, undone, savePc, saveLen, csvFile, jsonFile, rows, result, file, evalPc, output>>

(* ------------------------------------------------------------ span record *)
\* The dataclass Span, built positionally as the wrappers build it.
Span(kind, name, ws, we, wallns, cs, ce, cpuns, meta) ==
    [kind |-> kind, name |-> name, start_ns |-> ws, end_ns |-> we, wall_ns |-> wallns,
     cpu_start_ns |-> cs, cpu_end_ns |-> ce, cpu_ns |-> cpuns, meta |-> meta]

\* A span whose end readings are taken when it is appended (inside the lock), not
\* when the work exits.
MkSpanAtAppend(kind, name, ws, we, cs, ce, meta) ==
    Span(kind, name, ws, wall, wall - ws, cs, cpu, cpu - cs, meta)

\* s = Span(kind, label, ws, we, we-ws, cs, ce, ce-cs, meta) in the finally block.
MkSpan(kind, name, ws, we, cs, ce, meta) ==
    Span(kind, name, ws, we, we - ws, cs, ce, ce - cs, meta)

NoMeta == <<>>

(* ------------------------------------------ owners, members and callables *)
\* A value bound to a member name is a tuple whose first element is its sort:
\*   <<"none">>                      the name is not bound
\*   <<"data", id>>                  a non-callable value
\*   <<"func", id>>                  a plain function
\*   <<"static", id>>                a staticmethod object around function id
\*   <<"classm", id>>                a classmethod object around function id
\*   <<"bound", id, owner>>          function id bound to a class (a method object)
\*   <<"callobj", id>>               a callable that is not a function (a class, a partial)
\*   <<"wrap", label, meta, fn, a>>  a recording wrapper around fn; a = it is async
None == <<"none">>
Sort(v) == v[1]

Classes == {"Agent", "Base"}
Modules == {"mod"}
Owners == Classes \cup Modules
BaseOf(owner) == IF owner = "Agent" THEN "Base" ELSE ""

\* Every member name of the model, in the order dir() lists names (sorted).
SortedNames == <<"Sized", "__init__", "_step", "create", "fetch", "help", "limit", "make", "nope", "run">>
Names == {SortedNames[i] : i \in 1..Len(SortedNames)}
\* n.startswith("_")
StartsWithUnderscore(n) == n \in {"__init__", "_step"}
\* Functions defined with async def.
AsyncFuncIds == {8}

InitBind ==
    [o \in Owners |-> [n \in Names |->
        IF o = "Agent" THEN
            CASE n = "__init__" -> <<"func", 1>>
              [] n = "_step"    -> <<"func", 2>>
              [] n = "create"   -> <<"classm", 3>>
              [] n = "limit"    -> <<"data", 4>>
              [] n = "make"     -> <<"static", 5>>
              [] n = "run"      -> <<"func", 6>>
              [] OTHER          -> None
        ELSE IF o = "Base" THEN
            CASE n = "help"     -> <<"func", 7>>
              [] OTHER          -> None
        ELSE
            CASE n = "fetch"    -> <<"func", 8>>
              [] n = "run"      -> <<"func", 9>>
              [] n = "Sized"    -> <<"callobj", 10>>
              [] n = "limit"    -> <<"data", 11>>
              [] n = "_step"    -> <<"func", 12>>
              [] OTHER          -> None]]

\* The raw entry found along the owner's resolution order (own table, then base).
Lookup(b, owner, n) ==
    IF b[owner][n] # None THEN b[owner][n]
    ELSE IF BaseOf(owner) # "" THEN b[BaseOf(owner)][n]
    ELSE None

\* getattr(owner, n, None): the entry after the descriptor protocol of a class.
GetAttr(b, owner, n) ==
    LET raw == Lookup(b, owner, n) IN
    IF owner \in Classes /\ Sort(raw) = "static" THEN <<"func", raw[2]>>
    ELSE IF owner \in Classes /\ Sort(raw) = "classm" THEN <<"bound", raw[2], owner>>
    ELSE raw

\* setattr(owner, n, v): stores v itself in the owner's own table.
SetAttr(b, owner, n, v) == [b EXCEPT ![owner][n] = v]

\* callable(obj)
Callable(v) == Sort(v) \in {"func", "bound", "callobj", "wrap"}
\* inspect.isfunction(obj): plain functions only (a wrapper is one).
IsFunction(v) == Sort(v) \in {"func", "wrap"}
\* inspect.iscoroutinefunction(fn)
IsCoroutineFunction(v) ==
    CASE Sort(v) = "wrap" -> v[5]
      [] Sort(v) \in {"func", "bound"} -> v[2] \in AsyncFuncIds
      [] OTHER -> FALSE

\* dir(owner): the sorted names bound on the owner or its base.
Dir(b, owner) == SelectSeq(SortedNames, LAMBDA n : Lookup(b, owner, n) # None)

(* --------------------------------------------------- instrumentation registry *)
\* A registry state: the attribute tables and the patch stack.
Reg(b, p) == [bind |-> b, patches |-> p]

\* Tracer._wrap_callable: build the wrapper, read the current binding, rebind the
\* member to the wrapper and push (owner, attr, original).
WrapCallable(st, owner, attr, fn, label, meta) ==
    LET wrapped  == <<"wrap", label, meta, fn, IsCoroutineFunction(fn)>>
        original == GetAttr(st.bind, owner, attr)
    IN  Reg(SetAttr(st.bind, owner, attr, wrapped),
            Append(st.patches, <<owner, attr, original>>))

\* f"{name_prefix or owner.__name__}.{n}"
Label(owner, prefix, n) == (IF prefix # "" THEN prefix ELSE owner) \o "." \o n

\* include or [n for n in dir(owner) if not n.startswith("_")]
Candidates(b, owner, include) ==
    IF include # <<>> THEN include
    ELSE SelectSeq(Dir(b, owner), LAMBDA n : ~StartsWithUnderscore(n))

\* A loop of instrument_class that does not look at the exclude set.
RECURSIVE ClassLoopNoExclude(_, _, _, _, _, _, _)
ClassLoopNoExclude(st, cls, methods, i, exclude, prefix, meta) ==
    IF i > Len(methods) THEN st
    ELSE LET n   == methods[i]
             obj == GetAttr(st.bind, cls, n)
             nxt == IF Callable(obj)
                    THEN WrapCallable(st, cls, n, obj, Label(cls, prefix, n), meta)
                    ELSE st
         IN  ClassLoopNoExclude(nxt, cls, methods, i + 1, exclude, prefix, meta)

\* The loop of instrument_class over the candidate names, from the i-th on.
RECURSIVE ClassLoop(_, _, _, _, _, _, _)
ClassLoop(st, cls, methods, i, exclude, prefix, meta) ==
    IF i > Len(methods) THEN st
    ELSE LET n   == methods[i]
             obj == GetAttr(st.bind, cls, n)
             nxt == IF n \in exclude THEN st
                    ELSE IF Callable(obj)
                         THEN WrapCallable(st, cls, n, obj, Label(cls, prefix, n), meta)
                         ELSE st
         IN  ClassLoop(nxt, cls, methods, i + 1, exclude, prefix, meta)

\* A loop of instrument_module that takes every callable (callable(obj) instead
\* of isfunction(obj)).
RECURSIVE ModuleLoopCallable(_, _, _, _, _, _, _)
ModuleLoopCallable(st, mod, names, i, exclude, prefix, meta) ==
    IF i > Len(names) THEN st
    ELSE LET n   == names[i]
             obj == GetAttr(st.bind, mod, n)
             nxt == IF Callable(obj) /\ n \notin exclude
                    THEN WrapCallable(st, mod, n, obj, Label(mod, prefix, n), meta)
                    ELSE st
         IN  ModuleLoopCallable(nxt, mod, names, i + 1, exclude, prefix, meta)

\* The loop of instrument_module over the candidate names, from the i-th on.
RECURSIVE ModuleLoop(_, _, _, _, _, _, _)
ModuleLoop(st, mod, names, i, exclude, prefix, meta) ==
    IF i > Len(names) THEN st
    ELSE LET n   == names[i]
             obj == GetAttr(st.bind, mod, n)
             nxt == IF IsFunction(obj) /\ n \notin exclude
                    THEN WrapCallable(st, mod, n, obj, Label(mod, prefix, n), meta)
                    ELSE st
         IN  ModuleLoop(nxt, mod, names, i + 1, exclude, prefix, meta)

\* Tracer.instrument_class as a function of the registry state.
InstrumentClassOp(st, cls, include, exclude, prefix, meta) ==
    ClassLoop(st, cls, Candidates(st.bind, cls, include), 1, exclude, prefix, meta)

\* Tracer.instrument_module as a function of the registry state.
InstrumentModuleOp(st, mod, include, exclude, prefix, meta) ==
    ModuleLoop(st, mod, Candidates(st.bind, mod, include), 1, exclude, prefix, meta)

\* A restore that undoes only the most recent patch (if instead of while).
RestoreOnce(st) ==
    IF st.patches = <<>> THEN st
    ELSE LET p == st.patches[Len(st.patches)]
         IN  Reg(SetAttr(st.bind, p[1], p[2], p[3]), SubSeq(st.patches, 1, Len(st.patches) - 1))

\* Tracer.restore: while the stack is not empty, pop and rebind.
RECURSIVE RestoreOp(_)
RestoreOp(st) ==
    IF st.patches = <<>> THEN st
    ELSE LET p == st.patches[Len(st.patches)]
         IN  RestoreOp(Reg(SetAttr(st.bind, p[1], p[2], p[3]),
                           SubSeq(st.patches, 1, Len(st.patches) - 1)))

\* exclude=("__init__", "__repr__", "__str__", "__eq__", "__hash__")
DefaultExclude == {"__init__", "__repr__", "__str__", "__eq__", "__hash__"}
\* library="sweagent.debugger"
MainMeta == <<<<"library", "sweagent.debugger">>>>
\* scenario="baseline"
RunMeta == <<<<"scenario", "baseline">>>>

(* ------------------------------------------------------------- text encoding *)
Digits == <<"0", "1", "2", "3", "4", "5", "6", "7", "8", "9">>

\* str(n) of a natural number: its decimal digits, most significant first.
RECURSIVE DecNat(_)
DecNat(n) == IF n < 10 THEN <<Digits[n + 1]>> ELSE DecNat(n \div 10) \o <<Digits[(n % 10) + 1]>>

\* str(n) of an integer, as csv.DictWriter and json.dump write it.
Dec(n) == IF n < 0 THEN <<"-">> \o DecNat(-n) ELSE DecNat(n)

DigitValue(c) == CHOOSE d \in 0..9 : Digits[d + 1] = c
IsDigit(c) == \E d \in 0..9 : Digits[d + 1] = c

RECURSIVE ParseNat(_, _)
ParseNat(t, acc) == IF t = <<>> THEN acc ELSE ParseNat(Tail(t), 10 * acc + DigitValue(Head(t)))

\* Whether int(t) accepts the text t (an optional sign, then digits).
IsIntText(t) ==
    LET body == IF t # <<>> /\ Head(t) \in {"-", "+"} THEN Tail(t) ELSE t
    IN  body # <<>> /\ \A i \in 1..Len(body) : IsDigit(body[i])

\* int(t) of an accepted text.
ParseInt(t) ==
    IF Head(t) = "-" THEN 0 - ParseNat(Tail(t), 0)
    ELSE IF Head(t) = "+" THEN ParseNat(Tail(t), 0)
    ELSE ParseNat(t, 0)

\* json.dumps(meta): the map as object text, here its sequence of tokens.
RECURSIVE JsonMembers(_)
JsonMembers(m) ==
    IF m = <<>> THEN <<>>
    ELSE <<m[1][1], ":", m[1][2]>> \o (IF Len(m) > 1 THEN <<",">> ELSE <<>>) \o JsonMembers(Tail(m))
JsonDumps(m) == <<"{">> \o JsonMembers(m) \o <<"}">>

\* One data row of the csv file: asdict(s) with meta replaced by its json text.
CsvRow(s) ==
    [kind |-> s.kind, name |-> s.name,
     start_ns |-> Dec(s.start_ns), end_ns |-> Dec(s.end_ns), wall_ns |-> Dec(s.wall_ns),
     cpu_start_ns |-> Dec(s.cpu_start_ns), cpu_end_ns |-> Dec(s.cpu_end_ns),
     cpu_ns |-> Dec(s.cpu_ns), meta |-> JsonDumps(s.meta)]

\* One object of the json file: asdict(s), numbers as their text, meta nested.
JsonObj(s) ==
    [kind |-> s.kind, name |-> s.name,
     start_ns |-> Dec(s.start_ns), end_ns |-> Dec(s.end_ns), wall_ns |-> Dec(s.wall_ns),
     cpu_start_ns |-> Dec(s.cpu_start_ns), cpu_end_ns |-> Dec(s.cpu_end_ns),
     cpu_ns |-> Dec(s.cpu_ns), meta |-> s.meta]

\* A csv body that loses the first span (its row taken for the header).
CsvRowsSkipFirst(ledger) == [i \in 1..(Len(ledger) - 1) |-> CsvRow(ledger[i + 1])]

\* for s in self._spans: w.writerow(row)
CsvRows(ledger) == [i \in 1..Len(ledger) |-> CsvRow(ledger[i])]

\* [asdict(s) for s in self._spans]
JsonObjs(ledger) == [i \in 1..Len(ledger) |-> JsonObj(ledger[i])]

(* ------------------------------------------------------------------ recorders *)
\* What the recorded work did, and what the caller of the wrapper observes.
NoOutcome == <<"none", "">>
OutReturn == <<"return", "value">>
OutRaise == <<"raise", "Error">>
OutCancel == <<"cancel", "CancelledError">>
OutInterrupt == <<"raise", "KeyboardInterrupt">>

\* A wrapper that swallows the error of the work (except instead of finally).
PropagateSwallow(o) == IF o[1] = "return" THEN o ELSE <<"return", "None">>

\* try: return fn(...) / yield ... finally: the outcome of the work leaves the
\* wrapper as it is, no except clause intervenes.
Propagate(o) == o

\* The locals of a recording wrapper that has not been entered.
IdleRec ==
    [pc |-> "idle", shape |-> "none", kind |-> "", name |-> "", meta |-> NoMeta,
     ws |-> 0, cs |-> 0, we |-> 0, ce |-> 0, parent |-> 0,
     out |-> NoOutcome, seen |-> NoOutcome, own |-> 0]

Active(r) == rec[r].pc \notin {"idle", "done"}
ActiveChild(r) == \E c \in Rec : rec[c].parent = r /\ Active(c)
\* No recorded extent is open: the state in which the registry may be changed.
Quiescent == \A r \in Rec : ~Active(r)

\* r and the recorders whose extent encloses r's.
RECURSIVE Enclosing(_)
Enclosing(r) == IF rec[r].parent = 0 THEN {r} ELSE {r} \cup Enclosing(rec[r].parent)

\* ws = perf_counter_ns(); cs = process_time_ns(), then the work begins. p is the
\* recorder whose work makes this call (0: a thread or task of its own).
Enter(r, shape, kind, name, meta, p) ==
    /\ rec[r].pc = "idle"
    /\ \A q \in Rec : q < r => rec[q].pc # "idle"
    /\ IF p = 0 THEN TRUE ELSE p # r /\ rec[p].pc = "work" /\ ~ActiveChild(p)
    /\ rec' = [rec EXCEPT ![r] = [IdleRec EXCEPT !.pc = "work", !.shape = shape, !.kind = kind,
                                    !.name = name, !.meta = meta, !.ws = wall, !.cs = cpu,
                                    !.parent = p]]
    /\ UNCHANGED <<wall, cpu, spans, lock, regVars, saveVars>>

\* with tracer.span(name, kind, **meta): / tracer.api(name) / tracer.program(name)
EnterSpan(r, kind, name, meta, p) == Enter(r, "span", kind, name, meta, p)

\* A call of a function decorated with @tracer.trace_api(name): wrap or awrap.
EnterTraceApi(r, name, isAsync, p) ==
    Enter(r, IF isAsync THEN "awrap" ELSE "wrap", "api", name, NoMeta, p)

\* A call of owner.attr while it is bound to a wrapper of _wrap_callable.
CallMember(r, owner, attr, p) ==
    LET w == GetAttr(bind, owner, attr) IN
    /\ Sort(w) = "wrap"
    /\ Enter(r, IF w[5] THEN "awrap" ELSE "wrap", "api", w[2], w[3], p)

\* The wall clock advances while some recorded extent is open.
Tick ==
    /\ wall < MaxWall
    /\ \E r \in Rec : Active(r)
    /\ wall' = wall + 1
    /\ UNCHANGED <<cpu, rec, spans, lock, regVars, saveVars>>

\* The work of r executes: the process consumes CPU time on behalf of r (and of
\* the extents enclosing it).
Burn(r) ==
    /\ rec[r].pc = "work"
    /\ ~ActiveChild(r)
    /\ cpu < MaxCpu
    /\ cpu' = cpu + 1
    /\ rec' = [q \in Rec |-> IF q \in Enclosing(r) THEN [rec[q] EXCEPT !.own = @ + 1] ELSE rec[q]]
    /\ UNCHANGED <<wall, spans, lock, regVars, saveVars>>

\* await fn(...): the work of an async wrapper suspends.
Suspend(r) ==
    /\ rec[r].pc = "work"
    /\ rec[r].shape = "awrap"
    /\ ~ActiveChild(r)
    /\ rec' = [rec EXCEPT ![r].pc = "susp"]
    /\ UNCHANGED <<wall, cpu, spans, lock, regVars, saveVars>>

\* The suspended work is resumed.
Resume(r) ==
    /\ rec[r].pc = "susp"
    /\ rec' = [rec EXCEPT ![r].pc = "work"]
    /\ UNCHANGED <<wall, cpu, spans, lock, regVars, saveVars>>

\* The work exits (returns or raises; a suspended work is cancelled) and the
\* finally block reads we = perf_counter_ns(); ce = process_time_ns().
Exit(r, o) ==
    /\ \/ rec[r].pc = "work" /\ o \in {OutReturn, OutRaise, OutInterrupt}
       \/ rec[r].pc = "susp" /\ o = OutCancel
    /\ ~ActiveChild(r)
    /\ rec' = [rec EXCEPT ![r].pc = "exited", ![r].we = wall, ![r].ce = cpu, ![r].out = o]
    /\ UNCHANGED <<wall, cpu, spans, lock, regVars, saveVars>>

\* with self._lock: (entry)
Acquire(r) ==
    /\ rec[r].pc = "exited"
    /\ lock = 0
    /\ lock' = r
    /\ rec' = [rec EXCEPT ![r].pc = "locked"]
    /\ UNCHANGED <<wall, cpu, spans, regVars, saveVars>>

\* An append that happens only when the work returned (else instead of finally).
AppendReleaseOnSuccess(r) ==
    /\ rec[r].pc = "locked"
    /\ lock = r
    /\ spans' = IF rec[r].out = OutReturn
                THEN Append(spans, MkSpan(rec[r].kind, rec[r].name, rec[r].ws, rec[r].we,
                                          rec[r].cs, rec[r].ce, rec[r].meta))
                ELSE spans
    /\ lock' = 0
    /\ rec' = [rec EXCEPT ![r].pc = "appended"]
    /\ UNCHANGED <<wall, cpu, regVars, saveVars>>

\* A recorder that puts its span at the front of the ledger.
AppendReleaseFront(r) ==
    /\ rec[r].pc = "locked"
    /\ lock = r
    /\ spans' = <<MkSpan(rec[r].kind, rec[r].name, rec[r].ws, rec[r].we,
                         rec[r].cs, rec[r].ce, rec[r].meta)>> \o spans
    /\ lock' = 0
    /\ rec' = [rec EXCEPT ![r].pc = "appended"]
    /\ UNCHANGED <<wall, cpu, regVars, saveVars>>

\* A recorder that appends and keeps the lock.
AppendKeepLock(r) ==
    /\ rec[r].pc = "locked"
    /\ lock = r
    /\ spans' = Append(spans, MkSpan(rec[r].kind, rec[r].name, rec[r].ws, rec[r].we,
                                     rec[r].cs, rec[r].ce, rec[r].meta))
    /\ lock' = lock
    /\ rec' = [rec EXCEPT ![r].pc = "appended"]
    /\ UNCHANGED <<wall, cpu, regVars, saveVars>>

\* self._spans.append(s), then the with block releases the lock.
AppendRelease(r) ==
    /\ rec[r].pc = "locked"
    /\ lock = r
    /\ spans' = Append(spans, MkSpan(rec[r].kind, rec[r].name, rec[r].ws, rec[r].we,
                                     rec[r].cs, rec[r].ce, rec[r].meta))
    /\ lock' = 0
    /\ rec' = [rec EXCEPT ![r].pc = "appended"]
    /\ UNCHANGED <<wall, cpu, regVars, saveVars>>

\* The finally block is left: the caller observes the outcome of the work.
Deliver(r) ==
    /\ rec[r].pc = "appended"
    /\ rec' = [rec EXCEPT ![r].pc = "done", ![r].seen = Propagate(rec[r].out)]
    /\ UNCHANGED <<wall, cpu, spans, lock, regVars, saveVars>>

(* ------------------------------------------------------- registry operations *)
InstrumentClass(cls, include, exclude, prefix, meta) ==
    LET st == InstrumentClassOp(Reg(bind, patches), cls, include, exclude, prefix, meta) IN
    /\ Quiescent
    /\ savePc # "csv"
    /\ Len(st.patches) <= MaxPatches
    /\ bind' = st.bind
    /\ patches' = st.patches
    /\ lastOp' = "instrument_class"
    /\ undone' = 0
    /\ UNCHANGED <<wall, cpu, rec, spans, lock, saveVars>>

InstrumentModule(mod, include, exclude, prefix, meta) ==
    LET st == InstrumentModuleOp(Reg(bind, patches), mod, include, exclude, prefix, meta) IN
    /\ Quiescent
    /\ savePc # "csv"
    /\ Len(st.patches) <= MaxPatches
    /\ bind' = st.bind
    /\ patches' = st.patches
    /\ lastOp' = "instrument_module"
    /\ undone' = 0
    /\ UNCHANGED <<wall, cpu, rec, spans, lock, saveVars>>

\* A restore that also empties the ledger.
RestoreClearing ==
    LET st == RestoreOp(Reg(bind, patches)) IN
    /\ Quiescent
    /\ savePc # "csv"
    /\ bind' = st.bind
    /\ patches' = st.patches
    /\ lastOp' = "restore"
    /\ undone' = Len(patches) - Len(st.patches)
    /\ spans' = <<>>
    /\ UNCHANGED <<wall, cpu, rec, lock, saveVars>>

Restore ==
    LET st == RestoreOp(Reg(bind, patches)) IN
    /\ Quiescent
    /\ savePc # "csv"
    /\ bind' = st.bind
    /\ patches' = st.patches
    /\ lastOp' = "restore"
    /\ undone' = Len(patches) - Len(st.patches)
    /\ UNCHANGED <<wall, cpu, rec, spans, lock, saveVars>>

(* ---------------------------------------------------------------------- save *)
\* Tracer.save, first file: the csv rows are written from the ledger as it is
\* when the loop over self._spans ends.
SaveCsv ==
    /\ savePc \in {"idle", "done"}
    /\ savePc' = "csv"
    /\ saveLen' = Len(spans)
    /\ csvFile' = CsvRows(spans)
    /\ UNCHANGED <<wall, cpu, rec, spans, lock, regVars, jsonFile>>

\* Tracer.save, second file: json.dump of the ledger as it is at that moment.
SaveJson ==
    /\ savePc = "csv"
    /\ savePc' = "done"
    /\ jsonFile' = JsonObjs(spans)
    /\ UNCHANGED <<wall, cpu, rec, spans, lock, regVars, saveLen, csvFile>>

(* ---------------------------------------------------------- metrics compiler *)
\* Optional[int]: <<>> is None, <<v>> is the value v.
Absent == <<>>
Some(v) == <<v>>

\* One record of csv.DictReader maps each column of the header line to
\* Some(text), or to Absent (None) when the data line is too short to have it.
\* The fields load_rows reads.
Required == {"kind", "name", "wall_ns"}

\* rec["kind"], rec["name"], rec["wall_ns"]: KeyError when the header line has
\* no such column.
RaisesKeyError(r) == \E col \in Required : col \notin DOMAIN r

\* int(c): TypeError for None, ValueError for a text that is no integer.
IntRaises(c) == c = Absent \/ ~IsIntText(c[1])

\* Whether building the Row of the record raises.
RowRaises(r) == RaisesKeyError(r) \/ IntRaises(r.wall_ns)

\* A str field is taken as it is; a None is kept, here as the token "None".
Str(c) == IF c = Absent THEN "None" ELSE c[1]

\* Row(kind=rec["kind"], name=rec["name"], wall_ns=int(rec["wall_ns"]))
ParseRow(r) == [kind |-> Str(r.kind), name |-> Str(r.name), wall_ns |-> ParseInt(r.wall_ns[1])]

RECURSIVE SumSeq(_)
SumSeq(q) == IF q = <<>> THEN 0 ELSE Head(q) + SumSeq(Tail(q))

RECURSIVE MaxSeq(_)
MaxSeq(q) == IF Len(q) = 1 THEN q[1]
             ELSE LET m == MaxSeq(Tail(q)) IN IF Head(q) >= m THEN Head(q) ELSE m

RECURSIVE MinSeq(_)
MinSeq(q) == IF Len(q) = 1 THEN q[1]
             ELSE LET m == MinSeq(Tail(q)) IN IF Head(q) <= m THEN Head(q) ELSE m

RECURSIVE Gcd(_, _)
Gcd(a, b) == IF b = 0 THEN a ELSE Gcd(b, a % b)
Abs(a) == IF a < 0 THEN 0 - a ELSE a

\* The quotient a / b of true division (b > 0), as a fraction in lowest terms.
Ratio(a, b) == LET g == Gcd(Abs(a), b) IN [num |-> a \div g, den |-> b \div g]

\* A grouping that takes every row, whatever its kind.
GroupAllRows(rs) ==
    LET RECURSIVE Step(_, _)
        Step(i, by) ==
            IF i > Len(rs) THEN by
            ELSE LET r == rs[i]
                     at == {k \in 1..Len(by) : by[k].name = r.name}
                 IN  IF at = {}
                     THEN Step(i + 1, Append(by, [name |-> r.name, walls |-> <<r.wall_ns>>]))
                     ELSE LET k == CHOOSE k \in at : TRUE
                          IN  Step(i + 1, [by EXCEPT ![k].walls = Append(@, r.wall_ns)])
    IN  Step(1, <<>>)

\* by_name: for each name of an api row, in first-seen order, the list of its
\* wall_ns (a defaultdict(list) keeps insertion order).
GroupByName(rs) ==
    LET RECURSIVE Step(_, _)
        Step(i, by) ==
            IF i > Len(rs) THEN by
            ELSE LET r == rs[i]
                     at == {k \in 1..Len(by) : by[k].name = r.name}
                 IN  IF r.kind # "api" THEN Step(i + 1, by)
                     ELSE IF at = {}
                     THEN Step(i + 1, Append(by, [name |-> r.name, walls |-> <<r.wall_ns>>]))
                     ELSE LET k == CHOOSE k \in at : TRUE
                          IN  Step(i + 1, [by EXCEPT ![k].walls = Append(@, r.wall_ns)])
    IN  Step(1, <<>>)

\* ApiMetrics(name, count, cumulative_ns, mean_ns) of one group.
ApiMetrics(g) ==
    LET total == SumSeq(g.walls)
        count == Len(g.walls)
    IN  [name |-> g.name, count |-> count, cumulative_ns |-> total,
         mean_ns |-> IF count # 0 THEN Ratio(total, count) ELSE Ratio(0, 1)]

\* A descending sort that places a record ahead of the records of equal key.
RECURSIVE SortDescTiesReversed(_)
SortDescTiesReversed(q) ==
    IF q = <<>> THEN <<>>
    ELSE LET init   == SubSeq(q, 1, Len(q) - 1)
             last   == q[Len(q)]
             sorted == SortDescTiesReversed(init)
             ahead  == SelectSeq(sorted, LAMBDA m : m.cumulative_ns > last.cumulative_ns)
             behind == SelectSeq(sorted, LAMBDA m : m.cumulative_ns <= last.cumulative_ns)
         IN  ahead \o <<last>> \o behind

\* per_api.sort(key=lambda m: m.cumulative_ns, reverse=True): a stable sort, a
\* record is placed after the records whose key is not smaller.
RECURSIVE SortDesc(_)
SortDesc(q) ==
    IF q = <<>> THEN <<>>
    ELSE LET init   == SubSeq(q, 1, Len(q) - 1)
             last   == q[Len(q)]
             sorted == SortDesc(init)
             ahead  == SelectSeq(sorted, LAMBDA m : m.cumulative_ns >= last.cumulative_ns)
             behind == SelectSeq(sorted, LAMBDA m : m.cumulative_ns < last.cumulative_ns)
         IN  ahead \o <<last>> \o behind

\* The wall_ns of the rows that decide the program duration, taking the smallest.
ProgramNsMin(rs) ==
    LET named == SelectSeq(rs, LAMBDA r : r.kind = "program" /\ r.name = "entire_run")
        any   == SelectSeq(rs, LAMBDA r : r.kind = "program")
        pick  == IF named # <<>> THEN named ELSE any
    IN  IF pick # <<>> THEN Some(MinSeq([i \in 1..Len(pick) |-> pick[i].wall_ns])) ELSE Absent

\* program_ns: the largest wall_ns of the program rows named entire_run, else of
\* all program rows, else None.
ProgramNs(rs) ==
    LET named == SelectSeq(rs, LAMBDA r : r.kind = "program" /\ r.name = "entire_run")
        any   == SelectSeq(rs, LAMBDA r : r.kind = "program")
        pick  == IF named # <<>> THEN named ELSE any
    IN  IF pick # <<>> THEN Some(MaxSeq([i \in 1..Len(pick) |-> pick[i].wall_ns])) ELSE Absent

\* A summary whose non_api_ns is clamped at zero.
ComputeMetricsClamped(rs) ==
    LET by_name      == GroupByName(rs)
        per_api      == SortDesc([k \in 1..Len(by_name) |-> ApiMetrics(by_name[k])])
        program_ns   == ProgramNs(rs)
        api_total_ns == SumSeq([k \in 1..Len(per_api) |-> per_api[k].cumulative_ns])
        diff         == IF program_ns # Absent THEN program_ns[1] - api_total_ns ELSE 0
        non_api_ns   == IF program_ns # Absent THEN Some(IF diff < 0 THEN 0 ELSE diff) ELSE Absent
        share        == IF program_ns # Absent
                        THEN Some(IF program_ns[1] > 0
                                  THEN Ratio(api_total_ns * 100, program_ns[1])
                                  ELSE Ratio(0, 1))
                        ELSE Absent
    IN  [per_api |-> per_api,
         summary |-> [program_duration_ns |-> program_ns, api_cumulative_ns |-> api_total_ns,
                      non_api_ns |-> non_api_ns, api_share_pct |-> share],
         done |-> TRUE]

\* compute_metrics(rows) -> (per_api, summary)
ComputeMetrics(rs) ==
    LET by_name      == GroupByName(rs)
        per_api      == SortDesc([k \in 1..Len(by_name) |-> ApiMetrics(by_name[k])])
        program_ns   == ProgramNs(rs)
        api_total_ns == SumSeq([k \in 1..Len(per_api) |-> per_api[k].cumulative_ns])
        non_api_ns   == IF program_ns # Absent THEN Some(program_ns[1] - api_total_ns) ELSE Absent
        share        == IF program_ns # Absent
                        THEN Some(IF program_ns[1] > 0
                                  THEN Ratio(api_total_ns * 100, program_ns[1])
                                  ELSE Ratio(0, 1))
                        ELSE Absent
    IN  [per_api |-> per_api,
         summary |-> [program_duration_ns |-> program_ns, api_cumulative_ns |-> api_total_ns,
                      non_api_ns |-> non_api_ns, api_share_pct |-> share],
         done |-> TRUE]

\* The records of an exported file the compiler may be given.
InputKinds == {"api", "program"}
InputNames == {"A", "B", "entire_run"}
InputWalls == {0, 1, 3}
InputRecords ==
    [kind : {Some(k) : k \in InputKinds}, name : {Some(n) : n \in InputNames},
     wall_ns : {Some(Dec(w)) : w \in InputWalls}]
        \cup {[kind |-> Some("other"), name |-> Some("A"), wall_ns |-> Some(Dec(3))]}

\* Records of a file that is not a well-formed export: a wall_ns that is no
\* integer text (a word, a decimal fraction, an empty cell), a data line cut
\* short after the name or after the kind, and a header line without one of the
\* columns.
BadRecords ==
    {[kind |-> Some("api"), name |-> Some("A"), wall_ns |-> Some(<<"x">>)],
     [kind |-> Some("api"), name |-> Some("A"), wall_ns |-> Some(<<"1", ".", "5">>)],
     [kind |-> Some("program"), name |-> Some("entire_run"), wall_ns |-> Some(<<>>)],
     [kind |-> Some("api"), name |-> Some("A"), wall_ns |-> Absent],
     [kind |-> Some("api"), name |-> Absent, wall_ns |-> Absent],
     [name |-> Some("A"), wall_ns |-> Some(Dec(1))],
     [kind |-> Some("api"), wall_ns |-> Some(Dec(1))],
     [kind |-> Some("api"), name |-> Some("A")]}

\* A loader that drops a record it cannot parse and goes on.
LoadRowSkipBad(r) ==
    /\ evalPc = "load"
    /\ ~result.done
    /\ Len(file) < MaxRows
    /\ file' = Append(file, r)
    /\ rows' = IF RowRaises(r) THEN rows ELSE Append(rows, ParseRow(r))
    /\ UNCHANGED <<result, evalPc, output>>

\* load_rows: one more record of the file is read and parsed; the exception of
\* a record that cannot be parsed leaves load_rows and main.
LoadRow(r) ==
    /\ evalPc = "load"
    /\ ~result.done
    /\ Len(file) < MaxRows
    /\ file' = Append(file, r)
    /\ IF RowRaises(r)
       THEN evalPc' = "failed" /\ rows' = rows
       ELSE evalPc' = evalPc /\ rows' = Append(rows, ParseRow(r))
    /\ UNCHANGED <<result, output>>

\* main: per_api, summary = compute_metrics(rows)
Compute ==
    /\ evalPc = "load"
    /\ ~result.done
    /\ result' = ComputeMetrics(rows)
    /\ evalPc' = "computed"
    /\ UNCHANGED <<rows, file, output>>

\* main: the console tables, then the reports asked for by --out-md, --out-csv.
Report(out_md, out_csv) ==
    /\ evalPc = "computed"
    /\ evalPc' = "reported"
    /\ output' = <<"console">> \o (IF out_md THEN <<"markdown">> ELSE <<>>)
                               \o (IF out_csv THEN <<"csv", "summary_csv">> ELSE <<>>)
    /\ UNCHANGED <<rows, result, file>>

(* ------------------------------------------------------------- specification *)
NoResult == [per_api |-> <<>>, summary |-> <<>>, done |-> FALSE]

Init ==
    /\ wall = 0
    /\ cpu = 0
    /\ rec = [r \in Rec |-> IdleRec]
    /\ spans = <<>>
    /\ lock = 0
    /\ patches = <<>>
    /\ bind = InitBind
    /\ lastOp = "none"
    /\ undone = 0
    /\ savePc = "idle"
    /\ saveLen = 0
    /\ csvFile = <<>>
    /\ jsonFile = <<>>
    /\ rows = <<>>
    /\ result = NoResult
    /\ file = <<>>
    /\ evalPc = "load"
    /\ output = <<>>

\* The recorder that may make a nested call: none, or one whose work is running.
Callers == {0} \cup Rec

\* Recording, registry and export together, with the clocks standing still.
Next ==
    \/ \E r \in Rec, p \in Callers : EnterSpan(r, "program", "entire_run", RunMeta, p) /\ UNCHANGED metricVars
    \/ \E r \in Rec, p \in Callers, a \in BOOLEAN :
           EnterTraceApi(r, IF a THEN "Tool.fetch" ELSE "Tool.call", a, p) /\ UNCHANGED metricVars
    \/ \E r \in Rec, p \in Callers, o \in Owners, n \in {"run", "fetch"} :
           CallMember(r, o, n, p) /\ UNCHANGED metricVars
    \/ \E r \in Rec : Suspend(r) /\ UNCHANGED metricVars
    \/ \E r \in Rec : Resume(r) /\ UNCHANGED metricVars
    \/ \E r \in Rec, o \in {OutReturn, OutRaise, OutCancel} : Exit(r, o) /\ UNCHANGED metricVars
    \/ \E r \in Rec : Acquire(r) /\ UNCHANGED metricVars
    \/ \E r \in Rec : AppendRelease(r) /\ UNCHANGED metricVars
    \/ \E r \in Rec : Deliver(r) /\ UNCHANGED metricVars
    \/ InstrumentClass("Agent", <<>>, DefaultExclude, "AgentDebugger", MainMeta) /\ UNCHANGED metricVars
    \/ InstrumentModule("mod", <<>>, {}, "", NoMeta) /\ UNCHANGED metricVars
    \/ Restore /\ UNCHANGED metricVars
    \/ SaveCsv /\ UNCHANGED metricVars
    \/ SaveJson /\ UNCHANGED metricVars

Spec == Init /\ [][Next]_vars

\* Concurrent recorders under advancing clocks.
NextTime ==
    \/ \E r \in Rec, p \in Callers : EnterSpan(r, "api", "step", NoMeta, p) /\ UNCHANGED metricVars
    \/ \E r \in Rec, p \in Callers : EnterTraceApi(r, "Tool.fetch", TRUE, p) /\ UNCHANGED metricVars
    \/ Tick /\ UNCHANGED metricVars
    \/ \E r \in Rec : Burn(r) /\ UNCHANGED metricVars
    \/ \E r \in Rec : Suspend(r) /\ UNCHANGED metricVars
    \/ \E r \in Rec : Resume(r) /\ UNCHANGED metricVars
    \/ \E r \in Rec, o \in {OutReturn, OutCancel} : Exit(r, o) /\ UNCHANGED metricVars
    \/ \E r \in Rec : Acquire(r) /\ UNCHANGED metricVars
    \/ \E r \in Rec : AppendRelease(r) /\ UNCHANGED metricVars
    \/ \E r \in Rec : Deliver(r) /\ UNCHANGED metricVars

SpecTime == Init /\ [][NextTime]_vars

\* Export while recorders on other threads complete.
NextSave ==
    \/ \E r \in Rec : EnterSpan(r, "program", "entire_run", RunMeta, 0) /\ UNCHANGED metricVars
    \/ \E r \in Rec : EnterTraceApi(r, "Tool.call", FALSE, 0) /\ UNCHANGED metricVars
    \/ Tick /\ UNCHANGED metricVars
    \/ \E r \in Rec : Exit(r, OutReturn) /\ UNCHANGED metricVars
    \/ \E r \in Rec : Acquire(r) /\ UNCHANGED metricVars
    \/ \E r \in Rec : AppendRelease(r) /\ UNCHANGED metricVars
    \/ \E r \in Rec : Deliver(r) /\ UNCHANGED metricVars
    \/ SaveCsv /\ UNCHANGED metricVars
    \/ SaveJson /\ UNCHANGED metricVars

SpecSave == Init /\ [][NextSave]_vars

\* Recorders alone, nested and concurrent, sync and async, under a scheduler
\* that lets a thread waiting for the lock or holding it go on.
NextLock ==
    \/ \E r \in Rec, p \in Callers : EnterSpan(r, "api", "step", NoMeta, p) /\ UNCHANGED metricVars
    \/ \E r \in Rec, p \in Callers, a \in BOOLEAN : EnterTraceApi(r, "Tool.fetch", a, p) /\ UNCHANGED metricVars
    \/ \E r \in Rec : Suspend(r) /\ UNCHANGED metricVars
    \/ \E r \in Rec : Resume(r) /\ UNCHANGED metricVars
    \/ \E r \in Rec, o \in {OutReturn, OutRaise, OutCancel} : Exit(r, o) /\ UNCHANGED metricVars
    \/ \E r \in Rec : Acquire(r) /\ UNCHANGED metricVars
    \/ \E r \in Rec : AppendRelease(r) /\ UNCHANGED metricVars
    \/ \E r \in Rec : Deliver(r) /\ UNCHANGED metricVars

FairLock ==
    \A r \in Rec : /\ WF_vars(Acquire(r) /\ UNCHANGED metricVars)
                   /\ WF_vars(AppendRelease(r) /\ UNCHANGED metricVars)

SpecLock == Init /\ [][NextLock]_vars /\ FairLock

\* The program entry point. Recorder 1 is the extent of tracer.program around
\* main(), recorder 2 a call main() makes of an instrumented member.
\* tracer.instrument_class(AgentDebugger, name_prefix="AgentDebugger", library=...)
MainInstrument ==
    /\ lastOp = "none"
    /\ InstrumentClass("Agent", <<>>, DefaultExclude, "AgentDebugger", MainMeta)

\* with tracer.program("entire_run", scenario="baseline"): (entry)
MainEnter ==
    /\ lastOp = "instrument_class"
    /\ EnterSpan(1, "program", "entire_run", RunMeta, 0)

\* main(): a call of a member of the instrumented class.
MainCall(n) == CallMember(2, "Agent", n, 1)

\* main() returns, raises an error or is interrupted from the keyboard; a
\* member call returns or raises likewise.
MainExit(r, o) == Exit(r, o)

\* finally: tracer.restore(), reached when the with block has been left.
MainRestore ==
    /\ rec[1].pc = "done"
    /\ lastOp = "instrument_class"
    /\ Restore

\* finally: tracer.save(), after restore; its two files in turn.
MainSaveCsv ==
    /\ lastOp = "restore"
    /\ savePc = "idle"
    /\ SaveCsv

MainSaveJson ==
    /\ lastOp = "restore"
    /\ SaveJson

NextMain ==
    \/ MainInstrument /\ UNCHANGED metricVars
    \/ MainEnter /\ UNCHANGED metricVars
    \/ \E n \in Names : MainCall(n) /\ UNCHANGED metricVars
    \/ Tick /\ UNCHANGED metricVars
    \/ \E r \in Rec, o \in {OutReturn, OutRaise, OutInterrupt} : MainExit(r, o) /\ UNCHANGED metricVars
    \/ \E r \in Rec : Acquire(r) /\ UNCHANGED metricVars
    \/ \E r \in Rec : AppendRelease(r) /\ UNCHANGED metricVars
    \/ \E r \in Rec : Deliver(r) /\ UNCHANGED metricVars
    \/ MainRestore /\ UNCHANGED metricVars
    \/ MainSaveCsv /\ UNCHANGED metricVars
    \/ MainSaveJson /\ UNCHANGED metricVars

SpecMain == Init /\ [][NextMain]_vars

\* The registry alone, under the selections a caller may pass.
Call(owner, include, exclude, prefix) ==
    [owner |-> owner, include |-> include, exclude |-> exclude, prefix |-> prefix]

ClassCalls ==
    {Call("Agent", <<>>, DefaultExclude, "AgentDebugger"),
     Call("Agent", <<"run", "run">>, DefaultExclude, ""),
     Call("Agent", <<"help">>, DefaultExclude, ""),
     Call("Agent", <<>>, {"run", "help", "create"}, "P"),
     Call("Agent", <<"limit", "nope">>, DefaultExclude, ""),
     Call("Agent", <<"__init__", "run">>, DefaultExclude, ""),
     Call("Agent", <<"create">>, {}, "")}

ModuleCalls ==
    {Call("mod", <<>>, {}, ""),
     Call("mod", <<"fetch">>, {}, "P"),
     Call("mod", <<"Sized", "limit", "nope">>, {}, "")}

NextPatch ==
    \/ \E c \in ClassCalls :
           InstrumentClass(c.owner, c.include, c.exclude, c.prefix, MainMeta) /\ UNCHANGED metricVars
    \/ \E c \in ModuleCalls :
           InstrumentModule(c.owner, c.include, c.exclude, c.prefix, NoMeta) /\ UNCHANGED metricVars
    \/ Restore /\ UNCHANGED metricVars

SpecPatch == Init /\ [][NextPatch]_vars

\* The metrics compiler on the records of one exported file.
NextMetrics ==
    \/ \E r \in InputRecords \cup BadRecords : LoadRow(r) /\ UNCHANGED tracerVars
    \/ Compute /\ UNCHANGED tracerVars
    \/ \E out_md, out_csv \in BOOLEAN : Report(out_md, out_csv) /\ UNCHANGED tracerVars

SpecMetrics == Init /\ [][NextMetrics]_vars
(* ------------------------------------------------------------------ claims *)
IsPrefix(a, b) == Len(a) <= Len(b) /\ \A i \in 1..Len(a) : a[i] = b[i]
AllDone == \A r \in Rec : rec[r].pc = "done"
\* The recorders whose finally block has run past the append.
Appended == {r \in Rec : rec[r].pc \in {"appended", "done"}}
\* The ledger entry at position i carries the readings and the label of recorder r.
CarriesOwn(i, r) ==
    /\ spans[i].kind = rec[r].kind
    /\ spans[i].name = rec[r].name
    /\ spans[i].meta = rec[r].meta
    /\ spans[i].start_ns = rec[r].ws
    /\ spans[i].end_ns = rec[r].we
    /\ spans[i].wall_ns = rec[r].we - rec[r].ws
    /\ spans[i].cpu_start_ns = rec[r].cs
    /\ spans[i].cpu_end_ns = rec[r].ce
    /\ spans[i].cpu_ns = rec[r].ce - rec[r].cs

\* C1: every recording whose work extent has exited and whose finally block has
\* run has appended exactly one span, whatever the outcome of the work: the
\* ledger holds as many spans as there are such recordings, and none from a
\* recording still at work.
C1_OneSpanPerExit ==
    /\ Len(spans) = Cardinality(Appended)
    /\ \A r \in Appended : \E i \in 1..Len(spans) : CarriesOwn(i, r)

C1_Witness ==
    /\ AllDone
    /\ \E r \in Rec : rec[r].out = OutRaise /\ rec[r].name = "AgentDebugger.run"
    /\ \E r \in Rec : rec[r].out = OutCancel /\ rec[r].shape = "awrap"

\* C2: when the caller of a recording observes the outcome, it is the outcome the
\* work produced (the same error, the same value, the same cancellation), and
\* the span of that recording is already in the ledger.
C2_PureObserver ==
    \A r \in Rec : rec[r].pc = "done" =>
        /\ rec[r].out # NoOutcome
        /\ rec[r].seen = rec[r].out
        /\ \E i \in 1..Len(spans) : CarriesOwn(i, r)

C2_Witness ==
    /\ \E r \in Rec : rec[r].pc = "done" /\ rec[r].seen = OutRaise /\ rec[r].shape = "span"
    /\ \E r \in Rec : rec[r].pc = "done" /\ rec[r].seen = OutReturn /\ rec[r].name = "AgentDebugger.run"

\* C3: once all concurrent recorders have finished, the ledger holds exactly one
\* span per recording, and each span carries the label, kind and clock readings
\* of its own recorder.
C3_NoLostAppend ==
    AllDone =>
        /\ Len(spans) = Cardinality(Rec)
        /\ \E f \in [Rec -> 1..Len(spans)] :
               /\ \A r, q \in Rec : r # q => f[r] # f[q]
               /\ \A r \in Rec : CarriesOwn(f[r], r)

C3_Witness ==
    /\ AllDone
    /\ \A r \in Rec : rec[r].parent = 0
    /\ Len(spans) = 2
    /\ spans[1].name # spans[2].name
    /\ spans[1].start_ns < spans[2].start_ns
    /\ spans[1].end_ns > spans[2].start_ns
    /\ spans[1].wall_ns # spans[2].wall_ns

\* C4: after instrument_class followed by restore, every member of the type is
\* bound to the original it had before instrumentation, and the patch stack is
\* empty.
C4_RestoreIdentity ==
    lastOp = "restore" =>
        /\ patches = <<>>
        /\ \A o \in Classes, n \in Names : Lookup(bind, o, n) = Lookup(InitBind, o, n)

\* C5: a second restore changes nothing the first one left (bindings and patch
\* stack), and restore on an empty patch stack changes no binding.
C5_RestoreIdempotent ==
    LET once  == RestoreOp(Reg(bind, patches))
        twice == RestoreOp(once)
    IN  /\ once.patches = <<>>
        /\ twice = once
        /\ patches = <<>> => once = Reg(bind, patches)

C5_Witness ==
    /\ lastOp = "restore"
    /\ undone >= 3
    /\ patches = <<>>

RowIs(row, sp) ==
    /\ row.kind = sp.kind
    /\ row.name = sp.name
    /\ IsIntText(row.start_ns) /\ ParseInt(row.start_ns) = sp.start_ns
    /\ IsIntText(row.end_ns) /\ ParseInt(row.end_ns) = sp.end_ns
    /\ IsIntText(row.wall_ns) /\ ParseInt(row.wall_ns) = sp.wall_ns
    /\ IsIntText(row.cpu_start_ns) /\ ParseInt(row.cpu_start_ns) = sp.cpu_start_ns
    /\ IsIntText(row.cpu_end_ns) /\ ParseInt(row.cpu_end_ns) = sp.cpu_end_ns
    /\ IsIntText(row.cpu_ns) /\ ParseInt(row.cpu_ns) = sp.cpu_ns

\* C6: when a save has completed, each file holds the ledger's spans in ledger
\* order, one record per span, from the first span to at least the last span the
\* ledger had when the save began; with no append during the save that is every
\* span: n rows and n objects for a ledger of n spans.
C6_SaveTotal ==
    savePc = "done" =>
        /\ saveLen <= Len(csvFile) /\ Len(csvFile) <= Len(spans)
        /\ saveLen <= Len(jsonFile) /\ Len(jsonFile) <= Len(spans)
        /\ \A i \in 1..Len(csvFile) : RowIs(csvFile[i], spans[i])
        /\ \A i \in 1..Len(jsonFile) : RowIs(jsonFile[i], spans[i]) /\ jsonFile[i].meta = spans[i].meta
        /\ Len(spans) = saveLen => Len(csvFile) = Len(spans) /\ Len(jsonFile) = Len(spans)

C6_Witness ==
    /\ savePc = "done"
    /\ saveLen = 2
    /\ Len(spans) = 2
    /\ Len(csvFile) = 2
    /\ spans[1].name # spans[2].name
    /\ spans[1].wall_ns > 0

\* C7: the ledger before every step is a prefix of the ledger after it, and a
\* step of save, restore or instrumentation leaves the ledger unchanged.
C7_AppendOnly ==
    [][/\ IsPrefix(spans, spans')
       /\ (regVars' # regVars \/ saveVars' # saveVars) => spans' = spans]_vars

C7_Witness ==
    /\ Len(spans) = 2
    /\ lastOp = "restore"
    /\ undone > 0
    /\ savePc = "done"
    /\ Len(csvFile) = 2

\* C8: the cpu_ns of the span of an async wrapper is the CPU time consumed while
\* the wrapped callable itself was executing; CPU consumed by other tasks or
\* threads while it was suspended is not included.
C8_CpuOwnOnly ==
    \A r \in Rec : (rec[r].shape = "awrap" /\ rec[r].pc \in {"exited", "locked", "appended", "done"}) =>
        /\ rec[r].we - rec[r].ws >= 0
        /\ rec[r].ce - rec[r].cs = rec[r].own

ApiIdx == {i \in 1..Len(rows) : rows[i].kind = "api"}
IdxOf(name) == {i \in ApiIdx : rows[i].name = name}
RECURSIVE WallSum(_)
WallSum(I) == IF I = {} THEN 0 ELSE LET i == CHOOSE i \in I : TRUE IN rows[i].wall_ns + WallSum(I \ {i})

\* C9: compute_metrics returns exactly one record per distinct name among the
\* api rows, with count the number of api rows of that name, cumulative_ns the
\* sum of their wall_ns and mean_ns = cumulative_ns / count; rows of another
\* kind contribute nothing; api_cumulative_ns is the sum of wall_ns over all
\* api rows.
C9_PerLabel ==
    result.done =>
        LET per == result.per_api IN
        /\ {per[k].name : k \in 1..Len(per)} = {rows[i].name : i \in ApiIdx}
        /\ \A k, l \in 1..Len(per) : per[k].name = per[l].name => k = l
        /\ \A k \in 1..Len(per) :
               /\ per[k].count = Cardinality(IdxOf(per[k].name))
               /\ per[k].cumulative_ns = WallSum(IdxOf(per[k].name))
               /\ per[k].mean_ns.num * per[k].count = per[k].cumulative_ns * per[k].mean_ns.den
               /\ per[k].mean_ns.den > 0
        /\ result.summary.api_cumulative_ns = WallSum(ApiIdx)

C9_Witness ==
    /\ result.done
    /\ \E k \in 1..Len(result.per_api) :
           /\ result.per_api[k].count = 2
           /\ result.per_api[k].mean_ns.den = 2
           /\ \E i \in 1..Len(rows) : rows[i].kind # "api" /\ rows[i].name = result.per_api[k].name

ProgIdx == {i \in 1..Len(rows) : rows[i].kind = "program"}
RunIdx == {i \in ProgIdx : rows[i].name = "entire_run"}
IsLargest(v, I) == (\E i \in I : rows[i].wall_ns = v) /\ (\A i \in I : rows[i].wall_ns <= v)

\* C10: program_duration_ns is the largest wall_ns of the program rows named
\* entire_run when there is one, otherwise the largest wall_ns of all program
\* rows; it is absent exactly when there is no program row.
C10_ProgramDuration ==
    result.done =>
        LET d == result.summary.program_duration_ns IN
        /\ d = Absent <=> ProgIdx = {}
        /\ RunIdx # {} => (d # Absent /\ IsLargest(d[1], RunIdx))
        /\ (RunIdx = {} /\ ProgIdx # {}) => (d # Absent /\ IsLargest(d[1], ProgIdx))

C10_Witness ==
    /\ result.done
    /\ Cardinality(RunIdx) = 2
    /\ \E i \in ProgIdx \ RunIdx : rows[i].wall_ns > result.summary.program_duration_ns[1]
    /\ \E i, j \in RunIdx : rows[i].wall_ns < rows[j].wall_ns

\* C11: when program_duration_ns is present, non_api_ns = program_duration_ns -
\* api_cumulative_ns, a negative difference kept as it is, and api_share_pct =
\* 100 * api_cumulative_ns / program_duration_ns, except that a program duration
\* of 0 gives api_share_pct = 0; when program_duration_ns is absent both
\* non_api_ns and api_share_pct are absent.
C11_NonApiAndShare ==
    result.done =>
        LET s   == result.summary
            d   == s.program_duration_ns
            api == WallSum(ApiIdx)
        IN  /\ d = Absent => (s.non_api_ns = Absent /\ s.api_share_pct = Absent)
            /\ d # Absent =>
                   /\ s.non_api_ns = Some(d[1] - api)
                   /\ s.api_share_pct # Absent
                   /\ s.api_share_pct[1].den > 0
                   /\ IF d[1] = 0
                      THEN s.api_share_pct[1].num = 0
                      ELSE s.api_share_pct[1].num * d[1] = 100 * api * s.api_share_pct[1].den

C11_Witness ==
    /\ result.done
    /\ result.summary.program_duration_ns = Some(0)
    /\ result.summary.non_api_ns # Absent
    /\ result.summary.non_api_ns[1] < 0
    /\ result.summary.api_share_pct = Some([num |-> 0, den |-> 1])

\* The position of the first api row that carries the name.
FirstSeen(name) == CHOOSE i \in IdxOf(name) : \A j \in IdxOf(name) : i <= j

\* C12: the per-label records of compute_metrics are in descending order of
\* cumulative_ns, and records of equal cumulative_ns are in the order in which
\* their labels first occur in the input rows; the order is a function of the
\* input rows alone.
C12_SortedStable ==
    result.done =>
        LET per == result.per_api IN
        /\ \A k, l \in 1..Len(per) : k < l =>
               /\ per[k].cumulative_ns >= per[l].cumulative_ns
               /\ per[k].cumulative_ns = per[l].cumulative_ns =>
                      FirstSeen(per[k].name) < FirstSeen(per[l].name)
        /\ per = ComputeMetrics(rows).per_api

C12_Witness ==
    /\ result.done
    /\ Len(result.per_api) = 2
    /\ result.per_api[1].cumulative_ns = result.per_api[2].cumulative_ns
    /\ result.per_api[1].cumulative_ns > 0
    /\ \E i \in 1..Len(rows) : rows[i].kind # "api"

\* A record with a required field that is missing (no such column, or a data
\* line too short to have it) or a wall_ns that is no integer text.
Malformed(r) ==
    \E col \in Required :
        \/ col \notin DOMAIN r
        \/ r[col] = Absent
        \/ col = "wall_ns" /\ ~IsIntText(r[col][1])

C14_EndOrdered ==
    \A i, j \in 1..Len(spans) : i < j => spans[i].end_ns <= spans[j].end_ns

\* C14: the span of a recorder nested in the work of another precedes the span
\* of the enclosing recorder in the ledger and its end instant is not later
\* (between recorders of which neither encloses the other the ledger order
\* implies no order of the end instants).
C14_NestedOrdered ==
    \A c, p \in Rec : (rec[c].parent = p /\ c \in Appended /\ p \in Appended) =>
        \E i, j \in 1..Len(spans) :
            /\ i < j
            /\ CarriesOwn(i, c)
            /\ CarriesOwn(j, p)
            /\ spans[i].end_ns <= spans[j].end_ns

C14_Witness ==
    /\ \E c, p \in Rec : rec[c].parent = p /\ c \in Appended /\ p \in Appended
    /\ Len(spans) = 2
    /\ spans[1].end_ns < spans[2].end_ns
    /\ spans[1].start_ns > spans[2].start_ns

\* The (kind, name, wall_ns) of the records of a file, numbers decoded.
Decoded(f) == [i \in 1..Len(f) |-> <<f[i].kind, f[i].name, ParseInt(f[i].wall_ns)>>]

\* C15: the two files written by one save call carry the same spans: their
\* decoded (kind, name, wall_ns) sequences are equal, also when recorders on
\* other threads append while the save is running.
C15_FilesAgree ==
    savePc = "done" => Decoded(csvFile) = Decoded(jsonFile)

\* The lock is held by no one, or by a recorder that is between taking it and
\* its append; a recorder whose work is executing or suspended does not hold it.
LockOnlyForAppend ==
    /\ lock # 0 => rec[lock].pc = "locked"
    /\ \A r \in Rec : rec[r].pc \in {"work", "susp"} => lock # r

\* C16: the lock is held only for a single ledger append, never while recorded
\* work is executing or suspended; while a recorder is active some step is
\* possible (no deadlock); and every recorder whose work has exited eventually
\* completes its append, under weak fairness of taking the lock and appending.
C16_LockAndProgress ==
    /\ [](LockOnlyForAppend)
    /\ []((\E r \in Rec : Active(r)) => ENABLED <<NextLock>>_vars)
    /\ \A r \in Rec : (rec[r].pc = "exited") ~> (r \in Appended)

C16_Witness ==
    /\ lock # 0
    /\ \E q \in Rec : q # lock /\ rec[q].pc = "exited"
    /\ Len(spans) = 0

\* C17: after any sequence of instrument_class and instrument_module calls,
\* the same member instrumented more than once included, a single restore
\* leaves the patch stack empty and every member of every owner bound to what
\* it was bound to before the first instrumentation.
C17_RestoreUnwindsAll ==
    lastOp = "restore" =>
        /\ patches = <<>>
        /\ \A o \in Owners, n \in Names : Lookup(bind, o, n) = Lookup(InitBind, o, n)

\* The publicly named members of an owner, in the order of dir().
PublicNames(b, o) ==
    SelectSeq(SortedNames, LAMBDA n : Lookup(b, o, n) # None /\ ~StartsWithUnderscore(n))
SetOf(q) == {q[k] : k \in 1..Len(q)}
\* The patch records a step has pushed.
Pushed == SubSeq(patches', Len(patches) + 1, Len(patches'))
\* The step is the call c of instrument_class.
IsClassCall(c) ==
    /\ lastOp' = "instrument_class"
    /\ Reg(bind', patches') =
           InstrumentClassOp(Reg(bind, patches), c.owner, c.include, c.exclude, c.prefix, MainMeta)
\* After the step the member n of the owner of c is a wrapper labelled for c.
Labelled(c, n) ==
    /\ Sort(bind'[c.owner][n]) = "wrap"
    /\ bind'[c.owner][n][2] = Label(c.owner, c.prefix, n)

\* C18 as stated: instrument_class patches exactly the names of the include
\* list when one is given, otherwise the public names minus the exclude set,
\* in both cases those bound to a callable, with one patch record per member
\* and the label {name_prefix or type name}.{member}.
C18_PatchesStatedSet ==
    [][\A c \in ClassCalls : IsClassCall(c) =>
          LET stated == {n \in (IF c.include # <<>> THEN SetOf(c.include)
                                ELSE SetOf(PublicNames(bind, c.owner)) \ c.exclude) :
                            Callable(GetAttr(bind, c.owner, n))}
          IN  /\ {Pushed[k][2] : k \in 1..Len(Pushed)} = stated
              /\ Len(Pushed) = Cardinality(stated)
              /\ \A n \in stated : Labelled(c, n)]_vars

\* C18: instrument_class goes through the include list when a non-empty one is
\* given, otherwise through the public names, and in both cases patches each
\* name that is not in the exclude set and is bound to a callable, pushing one
\* patch record per occurrence of the name and labelling the member
\* {name_prefix or type name}.{member}; other names are skipped.
C18_PatchesSelected ==
    [][\A c \in ClassCalls : IsClassCall(c) =>
          LET through  == IF c.include # <<>> THEN c.include ELSE PublicNames(bind, c.owner)
              selected == SelectSeq(through, LAMBDA n : n \notin c.exclude
                                                        /\ Callable(GetAttr(bind, c.owner, n)))
          IN  /\ Len(Pushed) = Len(selected)
              /\ \A k \in 1..Len(selected) :
                     /\ Pushed[k][1] = c.owner
                     /\ Pushed[k][2] = selected[k]
                     /\ Labelled(c, selected[k])
              /\ \A n \in Names \ SetOf(selected) : bind'[c.owner][n] = bind[c.owner][n]]_vars

C18_Witness ==
    /\ lastOp = "instrument_class"
    /\ patches = << <<"Agent", "run", <<"func", 6>>>> >>
    /\ Sort(bind["Agent"]["run"]) = "wrap"
    /\ bind["Agent"]["run"][2] = "Agent.run"
    /\ bind["Agent"]["__init__"] = <<"func", 1>>

\* The step is the call c of instrument_module.
IsModuleCall(c) ==
    /\ lastOp' = "instrument_module"
    /\ Reg(bind', patches') =
           InstrumentModuleOp(Reg(bind, patches), c.owner, c.include, c.exclude, c.prefix, NoMeta)

\* C19 as stated: instrument_module does to the members of a namespace what the
\* rule of instrument_class does for the same include, exclude and prefix: it
\* patches every selected name bound to a callable of any sort and skips only
\* names that are missing or not callable.
C19_SameAsClassRule ==
    [][\A c \in ModuleCalls : IsModuleCall(c) =>
          Reg(bind', patches') =
              InstrumentClassOp(Reg(bind, patches), c.owner, c.include, c.exclude, c.prefix, NoMeta)]_vars

\* C19: instrument_module selects, wraps, labels and records as instrument_class
\* does (include list or public names, minus the exclude set), but patches only
\* the selected names bound to a plain function; names that are missing, not
\* callable, or bound to a callable of another sort are skipped.
C19_PatchesFunctions ==
    [][\A c \in ModuleCalls : IsModuleCall(c) =>
          LET through  == IF c.include # <<>> THEN c.include ELSE PublicNames(bind, c.owner)
              selected == SelectSeq(through, LAMBDA n : n \notin c.exclude
                                                        /\ IsFunction(GetAttr(bind, c.owner, n)))
          IN  /\ Len(Pushed) = Len(selected)
              /\ \A k \in 1..Len(selected) :
                     /\ Pushed[k][1] = c.owner
                     /\ Pushed[k][2] = selected[k]
                     /\ Labelled(c, selected[k])
              /\ \A n \in Names \ SetOf(selected) : bind'[c.owner][n] = bind[c.owner][n]]_vars

C19_Witness ==
    /\ lastOp = "instrument_module"
    /\ Len(patches) = 2
    /\ bind["mod"]["Sized"] = <<"callobj", 10>>
    /\ Sort(bind["mod"]["fetch"]) = "wrap"
    /\ bind["mod"]["fetch"][2] = "mod.fetch"
    /\ Sort(bind["mod"]["run"]) = "wrap"

\* How many records of a ledger or file are the program span named entire_run.
EntireRuns(q) ==
    Cardinality({i \in 1..Len(q) : q[i].kind = "program" /\ q[i].name = "entire_run"})

\* C20: in the program entry point, whether the run returns, raises an error or
\* is interrupted from the keyboard: the instrumentation is installed before
\* the run starts and stays while it is open; restore runs only after the run
\* has exited and its program span entire_run has been appended; save runs only
\* after restore has emptied the patch stack; and each exported file holds
\* exactly one program span named entire_run.
C20_MainOrder ==
    /\ (\E r \in Rec : rec[r].pc # "idle") => lastOp # "none"
    /\ (\E r \in Rec : Active(r)) => (lastOp = "instrument_class" /\ patches # <<>> /\ savePc = "idle")
    /\ lastOp = "restore" => (rec[1].pc = "done" /\ patches = <<>> /\ EntireRuns(spans) = 1)
    /\ savePc # "idle" => (lastOp = "restore" /\ patches = <<>> /\ EntireRuns(csvFile) = 1)
    /\ savePc = "done" => (EntireRuns(jsonFile) = 1 /\ Len(jsonFile) = Len(spans)
                           /\ Len(csvFile) = Len(spans))

C20_Witness ==
    /\ savePc = "done"
    /\ rec[1].out = OutInterrupt
    /\ rec[2].out = OutRaise
    /\ undone = 4
    /\ Len(csvFile) = 2
    /\ csvFile[2].name = "entire_run"
    /\ jsonFile[1].name = "AgentDebugger.run"
====
